---- MODULE Spec2Model ----
(***************************************************************************)
(* A model of the opendata.zh catalogue client (src/src/opendata.py) and   *)
(* of the get-dataset-type command (src/src/get_dataset_type.py).          *)
(*                                                                         *)
(* Python values are modelled as follows.  An optional value is a sequence *)
(* of length 0 (None, NaN) or 1 (the value).  A data frame is the sequence *)
(* of its rows, a row a record.  A dict is a record; a missing key is a    *)
(* field that is not in the record's DOMAIN.  An exception that leaves a   *)
(* handler is the handler's outcome, named after the Python exception.     *)
(***************************************************************************)
EXTENDS Integers, Sequences, FiniteSets, TLC

(***************************************************************************)
(* Bounds of the model.                                                    *)
(***************************************************************************)
MaxDatasets == 2   \* datasets the remote list endpoint holds
MaxPages == 3      \* pages the remote serves them as
MaxAccess == 3     \* accesses to the catalogue views of one client
MaxDists == 3      \* resources in a list handed to the classifier
MaxRes == 2        \* resources of the dataset the show endpoint knows
MaxPieces == 4     \* pieces a geo resource's url is made of
MaxWrapperPieces == 2  \* pieces of the url of a geo wrapper whose payload is accessed
MaxTokens == 3     \* tokens a tabular resource's url is made of
MaxCols == 2       \* columns a parse of the remote file yields

(***************************************************************************)
(* Optional values.                                                        *)
(***************************************************************************)
None == << >>
Some(v) == << v >>
Val(o) == o[1]

Min(a, b) == IF a <= b THEN a ELSE b

RECURSIVE Concat(_)
Concat(frames) ==
  IF frames = << >> THEN << >> ELSE Head(frames) \o Concat(Tail(frames))

RECURSIVE SumSeq(_)
SumSeq(s) == IF s = << >> THEN 0 ELSE Head(s) + SumSeq(Tail(s))

Range(s) == {s[i] : i \in DOMAIN s}

SeqsUpTo(S, n) == UNION {[1..k -> S] : k \in 0..n}

\* dict.get(key, default)
Get(x, key, default) == IF key \in DOMAIN x THEN x[key] ELSE default

(***************************************************************************)
(* The datasets of the remote catalogue.  A resource has an id and, most   *)
(* of the time, a format; a dataset has a name and its resources.  Two of  *)
(* the datasets share a name.                                              *)
(***************************************************************************)
Res(i, f) == [id |-> i, format |-> f]
ResNoFormat(i) == [id |-> i]

Datasets ==
  { [name |-> "a", resources |-> << Res("r1", "CSV"), Res("r2", "WFS") >>],
    [name |-> "a", resources |-> << Res("r3", "PDF") >>],
    [name |-> "b", resources |-> << Res("r4", "parquet"), ResNoFormat("r5") >>] }

\* The order of Python strings on the dataset names in use.
NameRank(n) == CASE n = "a" -> 1 [] n = "b" -> 2
NameLeq(m, n) == NameRank(m) <= NameRank(n)

VARIABLES
  remote,                     \* the pages the list endpoint serves, by page number
  _full_package_list_df,      \* OpenDataZH._full_package_list_df
  _tabular_package_list_df,   \* OpenDataZH._tabular_package_list_df
  _geo_package_list_df,       \* OpenDataZH._geo_package_list_df
  lastFetch,                  \* the last run of _get_full_package_list
  catRet,                     \* what the last access to a view returned or raised
  firstRet,                   \* per view, the first value an access returned
  fetches,                    \* runs of _get_full_package_list: started, completed
  computed,                   \* per derived view, how often the filter was applied
  nAccess                     \* accesses to the views so far

VARIABLES
  in_dists,                      \* the resource list handed to the classifier
  classified                  \* per class, what the classifier returned for it

catVars == << remote, _full_package_list_df, _tabular_package_list_df,
              _geo_package_list_df, lastFetch, catRet, firstRet, fetches,
              computed, nAccess >>
VARIABLES
  showRemote,                 \* the resources of the dataset the show endpoint knows
  package,                    \* the OpenDataPackage the caller holds, if any
  pkgRet,                     \* what the last call on the client or package did
  cliRun                      \* the last run of get_dataset_type.py

VARIABLES
  geoRes,                     \* an OpenDataGeoResource
  geoRet,                     \* what the last access to it did
  remoteFile,                 \* the file behind a tabular resource's url
  tabRes,                     \* an OpenDataTabularResource
  tabRet                      \* what the last access to it did

clsVars == << in_dists, classified >>
pkgVars == << package, pkgRet >>
cliVars == << cliRun >>
geoVars == << geoRes, geoRet >>
tabVars == << remoteFile, tabRes, tabRet >>
resVars == << geoVars, tabVars >>

vars == << catVars, clsVars, showRemote, pkgVars, cliVars, resVars >>

(***************************************************************************)
(* Catalogue-level resource classifier.                                    *)
(***************************************************************************)
\* str.lower() on the format strings in use.
Lower(f) ==
  CASE f \in {"CSV", "Csv", "csv"} -> "csv"
    [] f \in {"PARQUET", "parquet"} -> "parquet"
    [] f \in {"WFS", "wfs"} -> "wfs"
    [] f \in {"JSON", "json"} -> "json"
    [] f \in {"PDF", "pdf"} -> "pdf"
    [] OTHER -> f

IsTabularFormatAnyCase(x) == Lower(Get(x, "format", "")) \in {"csv", "parquet"}
IsTabularFormat(x) ==
  Get(x, "format", "") = "CSV" \/ Get(x, "format", "") = "parquet"

IsGeoFormat(x) == Get(x, "format", "") = "WFS"

has_tabular_distribution(dists) ==
  LET tabular_dists == SelectSeq(dists, IsTabularFormat)
  IN  IF tabular_dists # << >> THEN Some(tabular_dists) ELSE None

has_geo_distribution(dists) ==
  LET geo_dists == SelectSeq(dists, IsGeoFormat)
  IN  IF geo_dists # << >> THEN Some(geo_dists) ELSE None

\* df.dropna(subset=["resources"]): the rows whose resources are not NaN.
NotNa(row) == row.resources # None
fillna_empty(df) ==
  [i \in DOMAIN df |->
     [df[i] EXCEPT !.resources = IF @ = None THEN << >> ELSE Val(@)]]
dropna(df) ==
  LET kept == SelectSeq(df, NotNa)
  IN  [i \in DOMAIN kept |-> [kept[i] EXCEPT !.resources = Val(kept[i].resources)]]

\* df = full_df.copy(); df.resources = df.resources.apply(...); df.dropna(...)
filter_tabular(full_df) ==
  dropna([i \in DOMAIN full_df |->
            [full_df[i] EXCEPT !.resources = has_tabular_distribution(@)]])

filter_geo(full_df) ==
  dropna([i \in DOMAIN full_df |->
            [full_df[i] EXCEPT !.resources = has_geo_distribution(@)]])

(***************************************************************************)
(* The paginated fetch.                                                    *)
(***************************************************************************)
limit == 500

\* The list endpoint: the page at an offset.
RemoteList(lim, offset) ==
  LET k == (offset \div lim) + 1
  IN  IF k \in DOMAIN remote THEN remote[k] ELSE << >>

_get_package_list_page(lim, offset) ==
  LET result == RemoteList(lim, offset)
  IN  IF result = << >> THEN None ELSE Some(result)

\* df.set_index("name", drop=False).sort_index(): rows in ascending order of name.
RECURSIVE InsertByName(_, _)
InsertByName(row, sorted) ==
  IF sorted = << >> THEN << row >>
  ELSE IF NameLeq(Head(sorted).name, row.name)
       THEN << Head(sorted) >> \o InsertByName(row, Tail(sorted))
       ELSE << row >> \o sorted

RECURSIVE SortByName(_)
SortByName(df) ==
  IF df = << >> THEN << >>
  ELSE InsertByName(df[Len(df)], SortByName(SubSeq(df, 1, Len(df) - 1)))

\* The while loop of _get_full_package_list from one offset on.  failAt is the
\* number of the request that raises (requests.get or json.loads); 0 is none.
RECURSIVE FetchLoop(_, _, _, _)
FetchLoop(offset, frames, requested, failAt) ==
  LET log == Append(requested, offset)
  IN  IF Len(log) = failAt
      THEN [outcome |-> "RequestError", frames |-> frames, requested |-> log]
      ELSE LET df == _get_package_list_page(limit, offset)
           IN  IF df = None
               THEN [outcome |-> "ok", frames |-> frames, requested |-> log]
               ELSE FetchLoop(offset + limit, Append(frames, Val(df)), log, failAt)

\* _get_full_package_list: the loop, then concat and sort.  pd.concat of no
\* frames raises ValueError.
_get_full_package_list(failAt) ==
  LET run == FetchLoop(0, << >>, << >>, failAt)
  IN  IF run.outcome # "ok"
      THEN [outcome |-> run.outcome, requested |-> run.requested, df |-> None]
      ELSE IF run.frames = << >>
      THEN [outcome |-> "ValueError", requested |-> run.requested, df |-> None]
      ELSE [outcome |-> "ok", requested |-> run.requested,
            df |-> Some(SortByName(Concat(run.frames)))]

(***************************************************************************)
(* The catalogue client, OpenDataZH.                                       *)
(***************************************************************************)
Views == {"full", "tabular", "geo"}

\* A catalogue of ds served as pages of the given sizes.
RECURSIVE Split(_, _)
Split(ds, sizes) ==
  IF sizes = << >> THEN << >>
  ELSE << SubSeq(ds, 1, Head(sizes)) >>
       \o Split(SubSeq(ds, Head(sizes) + 1, Len(ds)), Tail(sizes))

Remotes ==
  { Split(p[1], p[2]) :
      p \in { q \in SeqsUpTo(Datasets, MaxDatasets) \X SeqsUpTo(0..MaxDatasets, MaxPages) :
                SumSeq(q[2]) = Len(q[1]) } }

NoFetch == [outcome |-> "none", requested |-> << >>, df |-> None]
NoRet == [view |-> "none", outcome |-> "none", value |-> None, hit |-> FALSE]

\* A client before construction, for the runs that use none.
CatalogueOff ==
  /\ remote = << >>
  /\ _full_package_list_df = None
  /\ _geo_package_list_df = None
  /\ _tabular_package_list_df = None
  /\ lastFetch = NoFetch
  /\ catRet = NoRet
  /\ firstRet = [v \in Views |-> None]
  /\ fetches = [started |-> 0, completed |-> 0]
  /\ computed = [v \in {"tabular", "geo"} |-> 0]
  /\ nAccess = 0

ClassifierOff ==
  /\ in_dists = << >>
  /\ classified = [c \in {"tabular", "geo"} |-> None]

NoCall == [op |-> "none", args |-> << >>, outcome |-> "none", value |-> None,
           printed |-> << >>, requested |-> << >>]
NoRun == [ran |-> FALSE, argv |-> << >>, stdout |-> << >>, exit |-> 0,
          exception |-> "none"]

PackageOff ==
  /\ package = None
  /\ pkgRet = NoCall

CliOff == cliRun = NoRun

NoGeoAccess == [op |-> "none", outcome |-> "none", value |-> None,
                printed |-> << >>, passed |-> None, calls |-> << >>,
                computed |-> << >>]
NoTabAccess == [op |-> "none", outcome |-> "none", value |-> None,
                printed |-> << >>, reads |-> << >>]

GeoOff ==
  /\ geoRes = None
  /\ geoRet = NoGeoAccess

TabularOff ==
  /\ remoteFile = None
  /\ tabRes = None
  /\ tabRet = NoTabAccess

ResourcesOff == GeoOff /\ TabularOff

\* OpenDataZH.__init__
InitCatalogue ==
  /\ ClassifierOff
  /\ showRemote = << >>
  /\ PackageOff
  /\ CliOff
  /\ ResourcesOff
  /\ remote \in Remotes
  /\ _full_package_list_df = None
  /\ _geo_package_list_df = None
  /\ _tabular_package_list_df = None
  /\ lastFetch = NoFetch
  /\ catRet = NoRet
  /\ firstRet = [v \in Views |-> None]
  /\ fetches = [started |-> 0, completed |-> 0]
  /\ computed = [v \in {"tabular", "geo"} |-> 0]
  /\ nAccess = 0

\* "if self._full_package_list_df is None"
FullMissingAlways == TRUE
FullMissing == _full_package_list_df = None

\* The request of a fetch that raises: none (0), or one of those it can make.
FailAts == IF FullMissing THEN 0..(Len(remote) + 1) ELSE {0}

\* "if self._tabular_package_list_df is None"
TabularMissingAlways == TRUE
TabularMissing == _tabular_package_list_df = None

\* "if self._geo_package_list_df is None"
GeoMissing == _geo_package_list_df = None

\* "if self._full_package_list_df is None: self._get_full_package_list()":
\* the fetch it runs, if any, and the full snapshot after it.
EnsureFullKeepingPages(failAt) ==
  IF FullMissing
  THEN LET f == _get_full_package_list(failAt)
       IN  [fetched |-> TRUE, outcome |-> f.outcome, run |-> f,
            full |-> IF f.outcome = "ok" THEN f.df
                     ELSE Some(SortByName(Concat(FetchLoop(0, << >>, << >>, failAt).frames)))]
  ELSE [fetched |-> FALSE, outcome |-> "ok", run |-> lastFetch,
        full |-> _full_package_list_df]

EnsureFull(failAt) ==
  IF FullMissing
  THEN LET f == _get_full_package_list(failAt)
       IN  [fetched |-> TRUE, outcome |-> f.outcome, run |-> f,
            full |-> IF f.outcome = "ok" THEN f.df ELSE _full_package_list_df]
  ELSE [fetched |-> FALSE, outcome |-> "ok", run |-> lastFetch,
        full |-> _full_package_list_df]

\* The bookkeeping of one access: the fetch log, the counters and the result
\* (hit: the view's cache held the value already).
Account(view, e, value, filtered, hit) ==
  /\ lastFetch' = e.run
  /\ fetches' = [started |-> fetches.started + (IF e.fetched THEN 1 ELSE 0),
                 completed |-> fetches.completed
                               + (IF e.fetched /\ e.outcome = "ok" THEN 1 ELSE 0)]
  /\ computed' = IF filtered THEN [computed EXCEPT ![view] = @ + 1] ELSE computed
  /\ catRet' = [view |-> view, outcome |-> e.outcome, value |-> value, hit |-> hit]
  /\ firstRet' = IF e.outcome = "ok" /\ firstRet[view] = None
                 THEN [firstRet EXCEPT ![view] = value] ELSE firstRet
  /\ nAccess' = nAccess + 1

\* property full_package_list_df
full_package_list_df ==
  /\ nAccess < MaxAccess
  /\ \E failAt \in FailAts :
       LET e == EnsureFull(failAt)
       IN  /\ _full_package_list_df' = e.full
           /\ Account("full", e, IF e.outcome = "ok" THEN e.full ELSE None, FALSE,
                      ~e.fetched)
  /\ UNCHANGED << remote, _tabular_package_list_df, _geo_package_list_df >>
  /\ UNCHANGED << clsVars, showRemote, pkgVars, cliVars, resVars >>

\* property tabular_package_list_df
tabular_package_list_df ==
  /\ nAccess < MaxAccess
  /\ \E failAt \in FailAts :
       IF TabularMissing
       THEN LET e == EnsureFull(failAt)
                t == IF e.outcome = "ok" THEN Some(filter_tabular(Val(e.full)))
                     ELSE _tabular_package_list_df
            IN  /\ _full_package_list_df' = e.full
                /\ _tabular_package_list_df' = t
                /\ Account("tabular", e, IF e.outcome = "ok" THEN t ELSE None,
                           e.outcome = "ok", FALSE)
       ELSE /\ UNCHANGED << _full_package_list_df, _tabular_package_list_df >>
            /\ Account("tabular",
                       [fetched |-> FALSE, outcome |-> "ok", run |-> lastFetch],
                       _tabular_package_list_df, FALSE, TRUE)
  /\ UNCHANGED << remote, _geo_package_list_df >>
  /\ UNCHANGED << clsVars, showRemote, pkgVars, cliVars, resVars >>

\* property geo_package_list_df
geo_package_list_df ==
  /\ nAccess < MaxAccess
  /\ \E failAt \in FailAts :
       IF GeoMissing
       THEN LET e == EnsureFull(failAt)
                g == IF e.outcome = "ok" THEN Some(filter_geo(Val(e.full)))
                     ELSE _geo_package_list_df
            IN  /\ _full_package_list_df' = e.full
                /\ _geo_package_list_df' = g
                /\ Account("geo", e, IF e.outcome = "ok" THEN g ELSE None,
                           e.outcome = "ok", FALSE)
       ELSE /\ UNCHANGED << _full_package_list_df, _geo_package_list_df >>
            /\ Account("geo",
                       [fetched |-> FALSE, outcome |-> "ok", run |-> lastFetch],
                       _geo_package_list_df, FALSE, TRUE)
  /\ UNCHANGED << remote, _tabular_package_list_df >>
  /\ UNCHANGED << clsVars, showRemote, pkgVars, cliVars, resVars >>

NextCatalogue ==
  \/ full_package_list_df
  \/ tabular_package_list_df
  \/ geo_package_list_df

SpecCatalogue == InitCatalogue /\ [][NextCatalogue]_vars

(***************************************************************************)
(* Properties of the paginated fetch and of the memoized views.            *)
(***************************************************************************)
\* The number of the first empty page the list endpoint serves.
FirstEmpty ==
  CHOOSE k \in 1..(Len(remote) + 1) :
    /\ RemoteList(limit, (k - 1) * limit) = << >>
    /\ \A j \in 1..(k - 1) : RemoteList(limit, (j - 1) * limit) # << >>

PagesBefore(k) == SubSeq(remote, 1, k - 1)
OffsetsUpTo(k) == [i \in 1..k |-> (i - 1) * limit]

IsSortedByName(df) ==
  \A i \in 1..(Len(df) - 1) : NameLeq(df[i].name, df[i + 1].name)

Count(df, row) == Cardinality({i \in DOMAIN df : df[i] = row})
SameRows(df1, df2) ==
  /\ Len(df1) = Len(df2)
  /\ \A row \in Range(df1) \cup Range(df2) : Count(df1, row) = Count(df2, row)

NoDuplicateNames(df) ==
  \A i, j \in DOMAIN df : df[i].name = df[j].name => i = j

\* What a fetch that no request failure cuts short must have done, by C1.
FetchedAsClaimed(run) ==
  /\ run.requested = OffsetsUpTo(FirstEmpty)
  /\ run.outcome = "ok"
  /\ IsSortedByName(Val(run.df))
  /\ SameRows(Val(run.df), Concat(PagesBefore(FirstEmpty)))

\* C1 (as claimed): for every remote catalogue, a fetch in which no request
\* fails asks for the offsets 0, limit, 2*limit, ... up to the first empty
\* page and no further, and returns the rows of the pages before it in
\* ascending order of name.
C1_FetchReturnsCatalogue ==
  lastFetch.outcome \notin {"none", "RequestError"} => FetchedAsClaimed(lastFetch)

\* The same for a catalogue whose first page is not empty: this part of C1
\* the code keeps.
FetchOfNonEmptyCatalogue ==
  (lastFetch.outcome \notin {"none", "RequestError"} /\ FirstEmpty > 1)
    => FetchedAsClaimed(lastFetch)

\* C2 (as claimed): after a completed fetch no two records of the snapshot
\* have the same name.
C2_SnapshotHasNoDuplicateNames ==
  _full_package_list_df # None => NoDuplicateNames(Val(_full_package_list_df))

\* C3 (as claimed): the paginated fetch is performed at most once, each view
\* is computed at most once and every later access returns the value of the
\* first access.
C3_FetchedAtMostOnce ==
  /\ fetches.started <= 1
  /\ \A v \in {"tabular", "geo"} : computed[v] <= 1
  /\ (catRet.view # "none" /\ firstRet[catRet.view] # None)
       => (catRet.outcome = "ok" /\ catRet.value = firstRet[catRet.view])

\* C3 (amended): the paginated fetch completes at most once (a fetch that
\* raises caches nothing and the next access runs it again), each derived
\* view is computed at most once, and once an access to a view has returned a
\* value every later access to that view returns the same value.
C3_MemoizedViews ==
  /\ fetches.completed <= 1
  /\ \A v \in {"tabular", "geo"} : computed[v] <= 1
  /\ (catRet.view # "none" /\ firstRet[catRet.view] # None)
       => (catRet.outcome = "ok" /\ catRet.value = firstRet[catRet.view])

\* A first fetch raised, a second one completed, and a derived view computed
\* from it is returned from its cache.
C3_Witness ==
  /\ fetches.started = 2
  /\ fetches.completed = 1
  /\ computed["tabular"] = 1
  /\ catRet.view = "tabular"
  /\ catRet.hit
  /\ Len(Val(catRet.value)) >= 1

(***************************************************************************)
(* The catalogue-level classifier on its own: has_tabular_distribution and *)
(* has_geo_distribution applied to one resource list.                      *)
(***************************************************************************)
ClassifierFormats == {"CSV", "Csv", "csv", "parquet", "PARQUET", "WFS", "wfs", "JSON"}
ClassifierResources ==
  {Res("r1", f) : f \in ClassifierFormats} \cup {ResNoFormat("r1")}

InitClassifier ==
  /\ CatalogueOff
  /\ showRemote = << >>
  /\ PackageOff
  /\ CliOff
  /\ ResourcesOff
  /\ in_dists \in SeqsUpTo(ClassifierResources, MaxDists)
  /\ classified = [c \in {"tabular", "geo"} |-> None]

apply_has_tabular_distribution ==
  /\ classified' = [classified EXCEPT !["tabular"] = Some(has_tabular_distribution(in_dists))]
  /\ UNCHANGED << in_dists, catVars, showRemote, pkgVars, cliVars, resVars >>

apply_has_geo_distribution ==
  /\ classified' = [classified EXCEPT !["geo"] = Some(has_geo_distribution(in_dists))]
  /\ UNCHANGED << in_dists, catVars, showRemote, pkgVars, cliVars, resVars >>

NextClassifier ==
  \/ apply_has_tabular_distribution
  \/ apply_has_geo_distribution

SpecClassifier == InitClassifier /\ [][NextClassifier]_vars

\* The resources a classifier result keeps: none when it returned NaN.
Kept(r) == IF r = None THEN << >> ELSE Val(r)

CsvOrParquetAnyCase(x) ==
  "format" \in DOMAIN x /\ Lower(x.format) \in {Lower("CSV"), Lower("parquet")}
CsvOrParquetExact(x) == "format" \in DOMAIN x /\ x.format \in {"CSV", "parquet"}
WfsExact(x) == "format" \in DOMAIN x /\ x.format = "WFS"

\* C5 (as claimed): the classifier keeps as tabular exactly the resources
\* whose format is CSV or parquet compared case-insensitively, and as geo
\* exactly those whose format is the string WFS.
C5_TabularIgnoresCase ==
  /\ classified["tabular"] # None
       => Kept(Val(classified["tabular"])) = SelectSeq(in_dists, CsvOrParquetAnyCase)
  /\ classified["geo"] # None
       => Kept(Val(classified["geo"])) = SelectSeq(in_dists, WfsExact)

\* C5 (amended): the classifier keeps as tabular exactly the resources whose
\* format is the string CSV or the string parquet (csv, Csv and PARQUET are
\* not tabular), and as geo exactly those whose format is the string WFS; a
\* resource without a format is in neither class; a class without resources
\* is NaN, never an empty list.
C5_ExactFormats ==
  /\ classified["tabular"] # None
       => /\ Kept(Val(classified["tabular"])) = SelectSeq(in_dists, CsvOrParquetExact)
          /\ Val(classified["tabular"]) # Some(<< >>)
  /\ classified["geo"] # None
       => /\ Kept(Val(classified["geo"])) = SelectSeq(in_dists, WfsExact)
          /\ Val(classified["geo"]) # Some(<< >>)

\* Both classifiers have run on a list that holds a CSV, a csv and a
\* resource without a format: the first alone is tabular, none is geo.
C5_Witness ==
  /\ \E i, j, k \in DOMAIN in_dists :
       /\ Get(in_dists[i], "format", "") = "CSV"
       /\ Get(in_dists[j], "format", "") = "csv"
       /\ "format" \notin DOMAIN in_dists[k]
  /\ classified["tabular"] # None
  /\ Len(Kept(Val(classified["tabular"]))) = 1
  /\ classified["geo"] = Some(None)

(***************************************************************************)
(* The show endpoint and get_package.                                      *)
(***************************************************************************)
KnownId == "ds"
Identifiers == {KnownId, "zz"}
PackageFormats == {"CSV", "WFS", "JSON", "PDF"}
ResourceIds == {"r1", "r2"}
PackageResources ==
  {Res(i, f) : i \in ResourceIds, f \in PackageFormats}
    \cup {ResNoFormat(i) : i \in ResourceIds}

\* GET package_show?id=ident, decoded.
RemoteShow(ident) ==
  IF ident = KnownId
  THEN [success |-> TRUE, result |-> [name |-> KnownId, resources |-> showRemote]]
  ELSE [success |-> FALSE, error |-> "Not found"]

\* OpenDataPackage.__init__
OpenDataPackage(metadata) ==
  [metadata |-> metadata,
   _resource_metadata_df |-> None,
   _tabular_resource_metadata_df |-> None,
   _geo_resource_metadata_df |-> None]

\* "if id is None and name is None"
NoIdentifierEither(id, name) == id = None \/ name = None
NoIdentifier(id, name) == id = None /\ name = None

\* OpenDataZH.get_package: what it returns, prints, and requests.
get_package(id, name) ==
  IF NoIdentifier(id, name)
  THEN [outcome |-> "ok", value |-> None,
        printed |-> << "Please provide either an id or a name." >>,
        requested |-> << >>]
  ELSE LET ident == IF id # None THEN Val(id) ELSE Val(name)
           data == RemoteShow(ident)
       IN  IF ~data.success
           THEN [outcome |-> "ok", value |-> None,
                 printed |-> << Get(data, "error", "No error message provided.") >>,
                 requested |-> << ident >>]
           ELSE [outcome |-> "ok", value |-> Some(OpenDataPackage(data.result)),
                 printed |-> << >>, requested |-> << ident >>]

(***************************************************************************)
(* The dataset wrapper, OpenDataPackage.  A data frame of resources is the *)
(* sequence of its rows, each with its index label and its record; a       *)
(* filtered frame keeps the labels.                                        *)
(***************************************************************************)
DataFrame(records) == [i \in DOMAIN records |-> [label |-> i - 1, rec |-> records[i]]]
Columns(df) == UNION {DOMAIN df[i].rec : i \in DOMAIN df}

\* df["format"].isin(["CSV", "parquet"]): NaN is in no list.
IsTabularRow(row) == "format" \in DOMAIN row.rec /\ row.rec.format \in {"CSV", "parquet"}

\* df["format"].isin(["WFS", "JSON"])
IsGeoRowOrCsv(row) ==
  "format" \in DOMAIN row.rec /\ row.rec.format \in {"WFS", "JSON", "CSV"}
IsGeoRow(row) == "format" \in DOMAIN row.rec /\ row.rec.format \in {"WFS", "JSON"}

\* A property of the wrapper gives the wrapper after the access, the
\* exception that left it, if any, and the value returned.
Returned(pkg, value) == [pkg |-> pkg, outcome |-> "ok", value |-> value]
Raised(pkg, exception) == [pkg |-> pkg, outcome |-> exception, value |-> None]

\* property resource_metadata_df
resource_metadata_df(pkg) ==
  IF pkg._resource_metadata_df = None
  THEN LET df == DataFrame(pkg.metadata.resources)
       IN  Returned([pkg EXCEPT !._resource_metadata_df = Some(df)], Some(df))
  ELSE Returned(pkg, pkg._resource_metadata_df)

\* property tabular_resource_metadata_df; df["format"] raises KeyError when
\* no resource has a format.
tabular_resource_metadata_df(pkg) ==
  IF pkg._tabular_resource_metadata_df = None
  THEN LET r == resource_metadata_df(pkg)
           df == Val(r.value)
       IN  IF "format" \notin Columns(df) THEN Raised(r.pkg, "KeyError")
           ELSE LET view == SelectSeq(df, IsTabularRow)
                IN  Returned([r.pkg EXCEPT !._tabular_resource_metadata_df = Some(view)],
                             Some(view))
  ELSE Returned(pkg, pkg._tabular_resource_metadata_df)

\* property geo_resource_metadata_df
geo_resource_metadata_df(pkg) ==
  IF pkg._geo_resource_metadata_df = None
  THEN LET r == resource_metadata_df(pkg)
           df == Val(r.value)
       IN  IF "format" \notin Columns(df) THEN Raised(r.pkg, "KeyError")
           ELSE LET view == SelectSeq(df, IsGeoRow)
                IN  Returned([r.pkg EXCEPT !._geo_resource_metadata_df = Some(view)],
                             Some(view))
  ELSE Returned(pkg, pkg._geo_resource_metadata_df)

\* view[view["id"] == id]
WithAnyId(view, id) == view
WithId(view, id) == SelectSeq(view, LAMBDA row : row.rec.id = id)

\* frame.iloc[index]: the row at a position, counted from the end when the
\* index is negative; IndexError outside the frame.
iloc(frame, index) ==
  IF -Len(frame) <= index /\ index < Len(frame)
  THEN Some(frame[(IF index < 0 THEN index + Len(frame) ELSE index) + 1])
  ELSE None

\* OpenDataTabularResource.__init__ / OpenDataGeoResource.__init__
OpenDataResource(kind, index, metadata) ==
  [kind |-> kind, index |-> index, metadata |-> metadata]

\* The body of tabular_resource and geo_resource, given the filtered view.
ResourceOf(kind, v, index, id) ==
  IF v.outcome # "ok" THEN Raised(v.pkg, v.outcome)
  ELSE LET frame == IF id # None THEN WithId(Val(v.value), Val(id)) ELSE Val(v.value)
           metadata == iloc(frame, IF id # None THEN 0 ELSE index)
       IN  IF metadata = None THEN Raised(v.pkg, "IndexError")
           ELSE Returned(v.pkg, Some(OpenDataResource(kind, index, Val(metadata))))

tabular_resource(pkg, index, id) ==
  ResourceOf("tabular", tabular_resource_metadata_df(pkg), index, id)

geo_resource(pkg, index, id) ==
  ResourceOf("geo", geo_resource_metadata_df(pkg), index, id)

(***************************************************************************)
(* A caller that gets a package from the client and uses it.               *)
(***************************************************************************)
InitPackage ==
  /\ CatalogueOff
  /\ ClassifierOff
  /\ showRemote \in SeqsUpTo(PackageResources, MaxRes)
  /\ PackageOff
  /\ CliOff
  /\ ResourcesOff

OptionalIdentifiers == {None} \cup {Some(i) : i \in Identifiers}
OptionalResourceIds == {None} \cup {Some(i) : i \in ResourceIds \cup {"r9"}}
\* The index argument: its default 0 when the id is given.
IndexArgs(id) == IF id # None THEN {0} ELSE -1..MaxRes

Called(op, args, r) ==
  [op |-> op, args |-> args, outcome |-> r.outcome, value |-> r.value,
   printed |-> << >>, requested |-> << >>]

\* package = odz.get_package(id, name)
GetPackage ==
  /\ \E id \in OptionalIdentifiers, name \in OptionalIdentifiers :
       LET g == get_package(id, name)
       IN  /\ package' = g.value
           /\ pkgRet' = [op |-> "get_package", args |-> << id, name >>,
                         outcome |-> g.outcome, value |-> g.value,
                         printed |-> g.printed, requested |-> g.requested]
  /\ UNCHANGED << catVars, clsVars, showRemote, cliVars, resVars >>

\* package.resource_metadata_df
ResourceMetadataDf ==
  /\ package # None
  /\ LET r == resource_metadata_df(Val(package))
     IN  /\ package' = Some(r.pkg)
         /\ pkgRet' = Called("resource_metadata_df", << >>, r)
  /\ UNCHANGED << catVars, clsVars, showRemote, cliVars, resVars >>

\* package.tabular_resource_metadata_df
TabularResourceMetadataDf ==
  /\ package # None
  /\ LET r == tabular_resource_metadata_df(Val(package))
     IN  /\ package' = Some(r.pkg)
         /\ pkgRet' = Called("tabular_resource_metadata_df", << >>, r)
  /\ UNCHANGED << catVars, clsVars, showRemote, cliVars, resVars >>

\* package.geo_resource_metadata_df
GeoResourceMetadataDf ==
  /\ package # None
  /\ LET r == geo_resource_metadata_df(Val(package))
     IN  /\ package' = Some(r.pkg)
         /\ pkgRet' = Called("geo_resource_metadata_df", << >>, r)
  /\ UNCHANGED << catVars, clsVars, showRemote, cliVars, resVars >>

\* package.tabular_resource(index, id)
TabularResource ==
  /\ package # None
  /\ \E id \in OptionalResourceIds :
       \E index \in IndexArgs(id) :
         LET r == tabular_resource(Val(package), index, id)
         IN  /\ package' = Some(r.pkg)
             /\ pkgRet' = Called("tabular_resource", << index, id >>, r)
  /\ UNCHANGED << catVars, clsVars, showRemote, cliVars, resVars >>

\* package.geo_resource(index, id)
GeoResource ==
  /\ package # None
  /\ \E id \in OptionalResourceIds :
       \E index \in IndexArgs(id) :
         LET r == geo_resource(Val(package), index, id)
         IN  /\ package' = Some(r.pkg)
             /\ pkgRet' = Called("geo_resource", << index, id >>, r)
  /\ UNCHANGED << catVars, clsVars, showRemote, cliVars, resVars >>

NextPackage ==
  \/ GetPackage
  \/ ResourceMetadataDf
  \/ TabularResourceMetadataDf
  \/ GeoResourceMetadataDf
  \/ TabularResource
  \/ GeoResource

SpecPackage == InitPackage /\ [][NextPackage]_vars

(***************************************************************************)
(* get_dataset_type.py.  An exception that leaves main ends the process    *)
(* with exit code 1 and a traceback on standard error.                     *)
(***************************************************************************)
Exited(stdout, code) == [stdout |-> stdout, exit |-> code, exception |-> "none"]
Crashed(stdout, exception) == [stdout |-> stdout, exit |-> 1, exception |-> exception]

\* main(dataset_id)
main(dataset_id) ==
  LET g == get_package(Some(dataset_id), None)
  IN  IF g.value = None THEN Crashed(g.printed, "AttributeError")
      ELSE LET geo == geo_resource_metadata_df(Val(g.value))
           IN  IF geo.outcome # "ok" THEN Crashed(g.printed, geo.outcome)
               ELSE IF Len(Val(geo.value)) > 0
               THEN Exited(g.printed \o << "geo" >>, 0)
               ELSE LET tab == tabular_resource_metadata_df(geo.pkg)
                    IN  IF tab.outcome # "ok" THEN Crashed(g.printed, tab.outcome)
                        ELSE IF Len(Val(tab.value)) > 0
                        THEN Exited(g.printed \o << "csv" >>, 0)
                        ELSE Exited(g.printed \o << "unknown" >>, 1)

\* if __name__ == "__main__"
script(argv) ==
  IF Len(argv) < 2
  THEN Exited(<< "Error: please provide a dataset id to inspect." >>, 1)
  ELSE main(argv[2])

Argvs ==
  {<< "get_dataset_type.py" >>} \cup {<< "get_dataset_type.py", i >> : i \in Identifiers}

InitCli ==
  /\ CatalogueOff
  /\ ClassifierOff
  /\ showRemote \in SeqsUpTo(PackageResources, MaxRes)
  /\ PackageOff
  /\ CliOff
  /\ ResourcesOff

\* python get_dataset_type.py [dataset_id]
GetDatasetType ==
  /\ \E argv \in Argvs :
       LET r == script(argv)
       IN  cliRun' = [ran |-> TRUE, argv |-> argv, stdout |-> r.stdout,
                      exit |-> r.exit, exception |-> r.exception]
  /\ UNCHANGED << catVars, clsVars, showRemote, pkgVars, resVars >>

NextCli == GetDatasetType

SpecCli == InitCli /\ [][NextCli]_vars

(***************************************************************************)
(* Properties of get_package and of the dataset wrapper.                   *)
(***************************************************************************)
\* The identifier a call of get_package(id, name) asks the remote for.
Asked(args) == IF args[1] # None THEN Val(args[1]) ELSE Val(args[2])

\* C4 (as claimed): get_package fails with InvalidArgument, without a request
\* to the show endpoint, when neither id nor slug is given, and with NotFound
\* when the remote reports success = false; it returns a dataset wrapper only
\* when the remote reports success.
C4_GetPackageFails ==
  pkgRet.op = "get_package" =>
    IF pkgRet.args = << None, None >>
    THEN pkgRet.outcome = "InvalidArgument" /\ pkgRet.requested = << >>
    ELSE IF ~RemoteShow(Asked(pkgRet.args)).success
    THEN pkgRet.outcome = "NotFound"
    ELSE pkgRet.outcome = "ok" /\ pkgRet.value # None

\* C4 (amended): get_package never raises on these paths.  When neither id
\* nor slug is given it prints a message and returns None without a request
\* to the show endpoint; when the remote reports success = false it prints the
\* remote's error and returns None; only when the remote reports success does
\* it return a dataset wrapper, around the record the remote sent.
C4_GetPackageReturnsNone ==
  pkgRet.op = "get_package" =>
    /\ pkgRet.outcome = "ok"
    /\ IF pkgRet.args = << None, None >>
       THEN /\ pkgRet.value = None
            /\ pkgRet.requested = << >>
            /\ pkgRet.printed = << "Please provide either an id or a name." >>
       ELSE /\ pkgRet.requested = << Asked(pkgRet.args) >>
            /\ IF ~RemoteShow(Asked(pkgRet.args)).success
               THEN /\ pkgRet.value = None
                    /\ pkgRet.printed = << RemoteShow(Asked(pkgRet.args)).error >>
               ELSE /\ pkgRet.value # None
                    /\ Val(pkgRet.value).metadata = RemoteShow(Asked(pkgRet.args)).result
                    /\ pkgRet.printed = << >>
    /\ package = pkgRet.value

\* get_package was called with a slug the remote does not know.
C4_Witness ==
  /\ pkgRet.op = "get_package"
  /\ pkgRet.args = << None, Some("zz") >>
  /\ pkgRet.value = None
  /\ pkgRet.requested = << "zz" >>

Labels(df) == {df[i].label : i \in DOMAIN df}
IsSubFrame(view, df) == \A i \in DOMAIN view : view[i] \in Range(df)

\* C6: in every dataset wrapper the resource table has one row per embedded
\* resource, in order; the tabular and the geo view are sub-frames of it
\* with no row in common, the tabular one holding the rows of format CSV or
\* parquet and the geo one those of format WFS or JSON; and an access to a
\* view returns the value its cache holds, so a repeated access returns the
\* same partition.
C6_ResourcePartition ==
  package # None =>
    LET pkg == Val(package)
        table == DataFrame(pkg.metadata.resources)
        tab == pkg._tabular_resource_metadata_df
        geo == pkg._geo_resource_metadata_df
    IN  /\ pkg._resource_metadata_df # None
             => /\ Val(pkg._resource_metadata_df) = table
                /\ Len(table) = Len(pkg.metadata.resources)
                /\ \A i \in DOMAIN table : table[i].rec = pkg.metadata.resources[i]
        /\ tab # None
             => /\ IsSubFrame(Val(tab), table)
                /\ Labels(Val(tab))
                     = {l \in Labels(table) :
                          Get(table[l + 1].rec, "format", "") \in {"CSV", "parquet"}}
        /\ geo # None
             => /\ IsSubFrame(Val(geo), table)
                /\ Labels(Val(geo))
                     = {l \in Labels(table) :
                          Get(table[l + 1].rec, "format", "") \in {"WFS", "JSON"}}
        /\ (tab # None /\ geo # None) => Labels(Val(tab)) \cap Labels(Val(geo)) = {}
        /\ (pkgRet.op = "resource_metadata_df" /\ pkgRet.outcome = "ok")
             => pkgRet.value = pkg._resource_metadata_df
        /\ (pkgRet.op = "tabular_resource_metadata_df" /\ pkgRet.outcome = "ok")
             => pkgRet.value = tab
        /\ (pkgRet.op = "geo_resource_metadata_df" /\ pkgRet.outcome = "ok")
             => pkgRet.value = geo

\* The dataset with one CSV and one WFS resource: the table has two rows,
\* the tabular view the first and the geo view the second.
C6_Witness ==
  /\ package # None
  /\ Val(package).metadata.resources = << Res("r1", "CSV"), Res("r2", "WFS") >>
  /\ Val(package)._resource_metadata_df # None
  /\ Len(Val(Val(package)._resource_metadata_df)) = 2
  /\ Val(package)._tabular_resource_metadata_df
       = Some(<< [label |-> 0, rec |-> Res("r1", "CSV")] >>)
  /\ Val(package)._geo_resource_metadata_df
       = Some(<< [label |-> 1, rec |-> Res("r2", "WFS")] >>)
  /\ pkgRet.op = "tabular_resource_metadata_df"

\* The rows of the filtered view of a kind that have the id, by label.
ViewLabels(kind, resources) ==
  {l \in 0..(Len(resources) - 1) :
     Get(resources[l + 1], "format", "")
       \in (IF kind = "tabular" THEN {"CSV", "parquet"} ELSE {"WFS", "JSON"})}
Matches(kind, resources, id) ==
  {l \in ViewLabels(kind, resources) : resources[l + 1].id = id}

\* C7: tabular_resource(id=x) and geo_resource(id=x) return a wrapper around
\* the record of the corresponding filtered view whose id is x (the first
\* one, should several have it), and raise when that view has no record of
\* id x: when the view is empty, when no id matches and when x is the id of
\* a resource of the other class only.  The exception is Python's IndexError
\* (KeyError when no resource of the dataset has a format).
C7_LookupById ==
  (pkgRet.op \in {"tabular_resource", "geo_resource"} /\ pkgRet.args[2] # None) =>
    LET kind == IF pkgRet.op = "tabular_resource" THEN "tabular" ELSE "geo"
        resources == Val(package).metadata.resources
        hits == Matches(kind, resources, Val(pkgRet.args[2]))
    IN  IF hits = {}
        THEN pkgRet.outcome \in {"IndexError", "KeyError"} /\ pkgRet.value = None
        ELSE /\ pkgRet.outcome = "ok"
             /\ pkgRet.value # None
             /\ Val(pkgRet.value).kind = kind
             /\ Val(pkgRet.value).metadata.label \in hits
             /\ \A l \in hits : Val(pkgRet.value).metadata.label <= l
             /\ Val(pkgRet.value).metadata.rec
                  = resources[Val(pkgRet.value).metadata.label + 1]

\* tabular_resource is asked for the id of the WFS resource of a dataset that
\* has a CSV resource too, and raises.
C7_Witness ==
  /\ package # None
  /\ Val(package).metadata.resources = << Res("r1", "CSV"), Res("r2", "WFS") >>
  /\ pkgRet.op = "tabular_resource"
  /\ pkgRet.args[2] = Some("r2")
  /\ pkgRet.outcome = "IndexError"

\* C10 (as claimed): a run of get_dataset_type.py with an identifier prints
\* exactly one of geo, csv, unknown and nothing else, exits with 0 after geo
\* or csv and with 1 after unknown; a run without argument exits with 1.
C10_PrintsOneOfThree ==
  cliRun.ran =>
    IF Len(cliRun.argv) < 2 THEN cliRun.exit = 1
    ELSE \/ cliRun.stdout \in {<< "geo" >>, << "csv" >>} /\ cliRun.exit = 0
         \/ cliRun.stdout = << "unknown" >> /\ cliRun.exit = 1

\* The same for the identifiers of datasets that have a resource with a
\* format: this part of C10 the code keeps.
CliOnDatasetWithFormats ==
  (cliRun.ran /\ cliRun.exception = "none") =>
    IF Len(cliRun.argv) < 2 THEN cliRun.exit = 1
    ELSE \/ cliRun.stdout \in {<< "geo" >>, << "csv" >>} /\ cliRun.exit = 0
         \/ cliRun.stdout = << "unknown" >> /\ cliRun.exit = 1

(***************************************************************************)
(* Geoportal url resolution.  A url is the sequence of its characters.     *)
(***************************************************************************)
GeoportalBase ==
  << "h", "t", "t", "p", "s", ":", "/", "/", "w", "w", "w", ".", "o", "g", "d", ".",
     "s", "t", "a", "d", "t", "-", "z", "u", "e", "r", "i", "c", "h", ".", "c", "h",
     "/", "w", "f", "s", "/", "g", "e", "o", "p", "o", "r", "t", "a", "l", "/" >>

\* "needle in url"
Contains(url, needle) ==
  \E i \in 1..(Len(url) - Len(needle) + 1) :
    SubSeq(url, i, i + Len(needle) - 1) = needle

\* The end of the longest run of characters other than / and ? that starts
\* at position i: the position after it.
RECURSIVE RunEnd(_, _)
RunEnd(url, i) ==
  IF i > Len(url) \/ url[i] \in {"/", "?"} THEN i ELSE RunEnd(url, i + 1)

\* Whether r"\/([^\/\?]+)\?" matches at position i.
MatchesAt(url, i) ==
  /\ url[i] = "/"
  /\ RunEnd(url, i + 1) > i + 1
  /\ RunEnd(url, i + 1) <= Len(url)
  /\ url[RunEnd(url, i + 1)] = "?"

\* identifier_from_url: group 1 of the leftmost match; None stands for the
\* AttributeError that .group(1) on no match raises.
identifier_from_url(url) ==
  LET starts == {i \in DOMAIN url : MatchesAt(url, i)}
  IN  IF starts = {} THEN None
      ELSE LET i == CHOOSE k \in starts : \A l \in starts : k <= l
           IN  Some(SubSeq(url, i + 1, RunEnd(url, i + 1) - 1))

url_to_geoportal_url_wfs_first(url) ==
  IF Contains(url, << "/", "w", "f", "s", "/" >>)
  THEN [value |-> Some(url), printed |-> << >>]
  ELSE IF identifier_from_url(url) # None
  THEN [value |-> Some(GeoportalBase \o Val(identifier_from_url(url))), printed |-> << >>]
  ELSE [value |-> None, printed |-> << "Could not extract identifier from url." >>]

\* url_to_geoportal_url: the value returned and the lines printed.
url_to_geoportal_url(url) ==
  LET identifier == identifier_from_url(url)
  IN  IF identifier # None
      THEN [value |-> Some(GeoportalBase \o Val(identifier)), printed |-> << >>]
      ELSE IF Contains(url, << "/", "w", "f", "s", "/" >>)
      THEN [value |-> Some(url), printed |-> << >>]
      ELSE [value |-> None, printed |-> << "Could not extract identifier from url." >>]

(***************************************************************************)
(* The geo resource wrapper, OpenDataGeoResource.                          *)
(***************************************************************************)
UrlPieces ==
  { << "/" >>, << "?" >>, << "a" >>, << "w", "f", "s" >>, << "/", "w", "f", "s", "/" >> }
GeoUrls == {Concat(ps) : ps \in SeqsUpTo(UrlPieces, MaxPieces)}

\* OpenDataGeoResource.__init__
OpenDataGeoResource(metadata) ==
  [metadata |-> metadata, _df |-> None, _layers |-> None, _wfs |-> None]

InitGeo ==
  /\ CatalogueOff
  /\ ClassifierOff
  /\ showRemote = << >>
  /\ PackageOff
  /\ CliOff
  /\ TabularOff
  /\ geoRes \in {Some(OpenDataGeoResource([url |-> u])) : u \in GeoUrls}
  /\ geoRet = NoGeoAccess

\* WebFeatureService(url, version="1.1.0") on a reachable service.
WebFeatureService(url) == [url |-> url, version |-> "1.1.0"]

\* "self._x is None": the test each memoized property starts with.
MissingAlways(cache) == TRUE
Missing(cache) == cache = None

\* The layer names a session lists, wfs.contents.keys().
WfsContents == { << >>, << "l1" >>, << "l1", "l2" >>, << "l2", "l1" >> }

\* What an access gives: the wrapper after it, how it ended, the value it
\* returned, what it printed, the url handed to the WFS session (None when
\* no session was opened), the requests sent to the service and the
\* properties that were computed rather than read from the wrapper.
GeoAccess(self, outcome, value, printed, passed, calls, recomputed) ==
  [self |-> self, outcome |-> outcome, value |-> value, printed |-> printed,
   passed |-> passed, calls |-> calls, computed |-> recomputed]

\* property wfs.  The session is opened with the resolved url, also when
\* that is None, and then it raises; with a url it raises when the service
\* cannot be reached.
get_wfs(self, reachable) ==
  IF Missing(self._wfs)
  THEN LET g == url_to_geoportal_url(self.metadata.url)
           calls == IF g.value # None THEN << "GetCapabilities" >> ELSE << >>
       IN  IF g.value # None /\ reachable
           THEN GeoAccess([self EXCEPT !._wfs = Some(WebFeatureService(Val(g.value)))],
                          "ok", Some(WebFeatureService(Val(g.value))), g.printed,
                          Some(g.value), calls, << "wfs" >>)
           ELSE GeoAccess(self, "WfsError", None, g.printed, Some(g.value), calls,
                          << "wfs" >>)
  ELSE GeoAccess(self, "ok", self._wfs, << >>, None, << >>, << >>)

\* geojson_layers_from_wfs(wfs)
geojson_layers_from_wfs(contents) == contents

\* property layers
get_layers(self, reachable, contents) ==
  IF Missing(self._layers)
  THEN LET w == get_wfs(self, reachable)
       IN  IF w.outcome # "ok"
           THEN [w EXCEPT !.computed = << "layers" >> \o @]
           ELSE GeoAccess([w.self EXCEPT
                             !._layers = Some(geojson_layers_from_wfs(contents))],
                          "ok", Some(geojson_layers_from_wfs(contents)), w.printed,
                          w.passed, w.calls, << "layers" >> \o w.computed)
  ELSE GeoAccess(self, "ok", self._layers, << >>, None, << >>, << >>)

\* What can go wrong in layer_df: the request or the parsing of its answer.
LayerFailures == {"none", "getfeature", "read_file"}

\* layer_df(layer) after the layers were listed by the access l:
\* read_geojson_from_wfs(self.wfs, layer), then gpd.read_file(response).
layer_df(l, layer, reachable, fail) ==
  LET w == get_wfs(l.self, reachable)
      printed == l.printed \o w.printed
      passed == IF w.passed # None THEN w.passed ELSE l.passed
      recomputed == << "df" >> \o l.computed \o w.computed
  IN  IF w.outcome # "ok"
      THEN GeoAccess(w.self, w.outcome, None, printed, passed,
                     l.calls \o w.calls, recomputed)
      ELSE IF fail = "getfeature"
      THEN GeoAccess(w.self, "WfsError", None, printed, passed,
                     l.calls \o w.calls \o << "GetFeature" >>, recomputed)
      ELSE IF fail = "read_file"
      THEN GeoAccess(w.self, "ReadError", None, printed, passed,
                     l.calls \o w.calls \o << "GetFeature" >>, recomputed)
      ELSE GeoAccess([w.self EXCEPT !._df = Some([layer |-> layer])], "ok",
                     Some([layer |-> layer]), printed, passed,
                     l.calls \o w.calls \o << "GetFeature" >>, recomputed)

\* property OpenDataGeoResource.df: the table of the first layer.
get_df(self, reachable, contents, fail) ==
  IF Missing(self._df)
  THEN LET l == get_layers(self, reachable, contents)
       IN  IF l.outcome # "ok"
           THEN [l EXCEPT !.computed = << "df" >> \o @]
           ELSE IF Val(l.value) = << >>
           THEN GeoAccess(l.self, "IndexError", None, l.printed, l.passed, l.calls,
                          << "df" >> \o l.computed)
           ELSE layer_df(l, Val(l.value)[1], reachable, fail)
  ELSE GeoAccess(self, "ok", self._df, << >>, None, << >>, << >>)

\* The wrapper and the account of the access after the access a of op.
Accessed(op, a) ==
  /\ geoRes' = Some(a.self)
  /\ geoRet' = [op |-> op, outcome |-> a.outcome, value |-> a.value,
                printed |-> a.printed, passed |-> a.passed, calls |-> a.calls,
                computed |-> a.computed]
  /\ UNCHANGED << catVars, clsVars, showRemote, pkgVars, cliVars, tabVars >>

wfs ==
  /\ geoRes # None
  /\ \E reachable \in BOOLEAN :
       Accessed("wfs", get_wfs(Val(geoRes), reachable))

layers ==
  /\ geoRes # None
  /\ \E reachable \in BOOLEAN, contents \in WfsContents :
       Accessed("layers", get_layers(Val(geoRes), reachable, contents))

OpenDataGeoResource_df ==
  /\ geoRes # None
  /\ \E reachable \in BOOLEAN, contents \in WfsContents, fail \in LayerFailures :
       Accessed("df", get_df(Val(geoRes), reachable, contents, fail))

NextGeo == wfs

SpecGeo == InitGeo /\ [][NextGeo]_vars

(***************************************************************************)
(* Properties of the geoportal url resolution.                             *)
(***************************************************************************)
WfsSegment == << "/", "w", "f", "s", "/" >>

\* The path segments of a url that a ? follows directly, as the positions of
\* the / before and of the ? after them.
SegmentsBeforeQuery(url) ==
  { p \in (DOMAIN url) \X (DOMAIN url) :
      /\ url[p[1]] = "/"
      /\ url[p[2]] = "?"
      /\ p[1] + 1 < p[2]
      /\ \A k \in (p[1] + 1)..(p[2] - 1) : url[k] \notin {"/", "?"} }

FirstSegmentBeforeQuery(url) ==
  LET p == CHOOSE q \in SegmentsBeforeQuery(url) :
             \A r \in SegmentsBeforeQuery(url) : q[1] <= r[1]
  IN  SubSeq(url, p[1] + 1, p[2] - 1)

\* The access resolved the url: it was not served from the cache.
Resolved == geoRet.op = "wfs" /\ ~(geoRet.outcome = "ok" /\ geoRet.passed = None)

\* C8 (as claimed): a url that contains /wfs/ goes to the WFS session
\* unchanged, query string or not; otherwise a url with a path segment
\* followed by ? goes there as the geoportal base plus that segment; every
\* other url fails with ExtractionError and nothing is passed to the session.
C8_WfsUnchangedElseFails ==
  Resolved =>
    LET url == Val(geoRes).metadata.url
    IN  IF Contains(url, WfsSegment) THEN geoRet.passed = Some(Some(url))
        ELSE IF SegmentsBeforeQuery(url) # {}
        THEN geoRet.passed = Some(Some(GeoportalBase \o FirstSegmentBeforeQuery(url)))
        ELSE geoRet.outcome = "ExtractionError" /\ geoRet.passed = None

\* C8 (amended): the three outcomes are tried in this order.  A url in which
\* a / is followed by a non-empty run of characters other than / and ? and
\* then by ? is rewritten to the geoportal base plus the first such run, also
\* when it contains /wfs/; otherwise a url that contains /wfs/ is returned
\* unchanged; every other url prints a message and yields None, and the wfs
\* property passes that None on to the WFS session, which raises.
C8_IdentifierFirstElseNone ==
  Resolved =>
    LET url == Val(geoRes).metadata.url
    IN  IF SegmentsBeforeQuery(url) # {}
        THEN /\ geoRet.passed = Some(Some(GeoportalBase \o FirstSegmentBeforeQuery(url)))
             /\ geoRet.printed = << >>
        ELSE IF Contains(url, WfsSegment)
        THEN geoRet.passed = Some(Some(url)) /\ geoRet.printed = << >>
        ELSE /\ geoRet.passed = Some(None)
             /\ geoRet.printed = << "Could not extract identifier from url." >>
             /\ geoRet.outcome = "WfsError"
             /\ geoRet.value = None
             /\ Val(geoRes)._wfs = None

\* A url with a /wfs/ segment and a query string is resolved: the session
\* is opened at the geoportal base plus the segment before the query.
C8_Witness ==
  /\ geoRes # None
  /\ Val(geoRes).metadata.url = << "/", "w", "f", "s", "/", "a", "?", "a" >>
  /\ geoRet.op = "wfs"
  /\ geoRet.outcome = "ok"
  /\ geoRet.passed = Some(Some(GeoportalBase \o << "a" >>))
  /\ Val(geoRes)._wfs = Some(WebFeatureService(GeoportalBase \o << "a" >>))

(***************************************************************************)
(* get_dataset and the tabular resource wrapper, OpenDataTabularResource.  *)
(* A url is a sequence of tokens, the dot being one; the remote file gives *)
(* the number of columns each reader finds in it.                          *)
(***************************************************************************)
UrlTokens == {".", "csv", "parquet", "zip"}
TabularUrls == SeqsUpTo(UrlTokens, MaxTokens)
Readers == {",", ";", "parquet"}

\* url.rsplit(".", 1)[-1]: what follows the last dot, the url when it has none.
RECURSIVE rsplit_last(_)
rsplit_last(url) ==
  IF url = << >> \/ url[Len(url)] = "." THEN << >>
  ELSE rsplit_last(SubSeq(url, 1, Len(url) - 1)) \o << url[Len(url)] >>

\* pd.read_csv(url, sep=...) / pd.read_parquet(url): the table read.
read(file, reader) == [reader |-> reader, columns |-> file[reader]]

\* "df.shape[1] <= 1"
AtMostNoColumn(df) == df.columns < 1
AtMostOneColumn(df) == df.columns <= 1

Got(value, printed, reads) ==
  [outcome |-> "ok", value |-> value, printed |-> printed, reads |-> reads]
ReadFailed(reads) ==
  [outcome |-> "ReadError", value |-> None, printed |-> << >>, reads |-> reads]

\* get_dataset(url).  failAt is the number of the read that raises, 0 for none.
get_dataset(url, file, failAt) ==
  LET extension == rsplit_last(url)
  IN  IF extension = << "parquet" >>
      THEN IF failAt = 1 THEN ReadFailed(<< "parquet" >>)
           ELSE Got(Some(read(file, "parquet")), << >>, << "parquet" >>)
      ELSE IF extension = << "csv" >>
      THEN IF failAt = 1 THEN ReadFailed(<< "," >>)
           ELSE IF AtMostOneColumn(read(file, ","))
           THEN IF failAt = 2 THEN ReadFailed(<< ",", ";" >>)
                ELSE Got(Some(read(file, ";")),
                         IF AtMostOneColumn(read(file, ";"))
                         THEN << "The data wasn't imported properly." >> ELSE << >>,
                         << ",", ";" >>)
           ELSE Got(Some(read(file, ",")), << >>, << "," >>)
      ELSE Got(None, << "Cannot load data!" >>, << >>)

\* OpenDataTabularResource.__init__
OpenDataTabularResource(metadata) == [metadata |-> metadata, _df |-> None]

InitTabular ==
  /\ CatalogueOff
  /\ ClassifierOff
  /\ showRemote = << >>
  /\ PackageOff
  /\ CliOff
  /\ GeoOff
  /\ remoteFile \in {Some(f) : f \in [Readers -> 0..MaxCols]}
  /\ tabRes \in {Some(OpenDataTabularResource([url |-> u])) : u \in TabularUrls}
  /\ tabRet = NoTabAccess

\* property OpenDataTabularResource.df
df ==
  /\ tabRes # None
  /\ IF Missing(Val(tabRes)._df)
     THEN \E failAt \in 0..2 :
            LET g == get_dataset(Val(tabRes).metadata.url, Val(remoteFile), failAt)
            IN  /\ tabRes' = IF g.outcome = "ok"
                             THEN Some([Val(tabRes) EXCEPT !._df = g.value])
                             ELSE tabRes
                /\ tabRet' = [op |-> "get_dataset", outcome |-> g.outcome,
                              value |-> g.value, printed |-> g.printed,
                              reads |-> g.reads]
     ELSE /\ tabRes' = tabRes
          /\ tabRet' = [op |-> "cached", outcome |-> "ok", value |-> Val(tabRes)._df,
                        printed |-> << >>, reads |-> << >>]
  /\ UNCHANGED << catVars, clsVars, showRemote, pkgVars, cliVars, geoVars, remoteFile >>

NextTabular == df

SpecTabular == InitTabular /\ [][NextTabular]_vars

\* The url ends with the extension, after a dot or as a whole.
HasExtension(url, extension) ==
  /\ url # << >>
  /\ url[Len(url)] = extension
  /\ Len(url) > 1 => url[Len(url) - 1] = "."

\* C9: for a csv url get_dataset reads with the comma first; it reads with
\* the semicolon if and only if the comma read gave at most one column; it
\* prints the diagnostic if and only if both reads gave at most one column,
\* and then still returns the semicolon table.  For an extension other than
\* csv and parquet it reads nothing, prints a diagnostic and returns None.
C9_DelimiterFallback ==
  tabRet.op = "get_dataset" =>
    LET url == Val(tabRes).metadata.url
        file == Val(remoteFile)
        isCsv == HasExtension(url, "csv")
        isParquet == HasExtension(url, "parquet")
        commaRead == Len(tabRet.reads) > 1 \/ tabRet.outcome = "ok"
        semiRead == Len(tabRet.reads) = 2 /\ tabRet.outcome = "ok"
    IN  /\ isCsv =>
             /\ tabRet.reads # << >> /\ tabRet.reads[1] = ","
             /\ commaRead =>
                  ((Len(tabRet.reads) = 2) <=> (file[","] <= 1))
             /\ Len(tabRet.reads) = 2 => tabRet.reads[2] = ";"
             /\ (tabRet.printed # << >>)
                  <=> (semiRead /\ file[","] <= 1 /\ file[";"] <= 1)
             /\ tabRet.printed # << >>
                  => tabRet.value = Some([reader |-> ";", columns |-> file[";"]])
             /\ (tabRet.outcome = "ok" /\ file[","] > 1)
                  => tabRet.value = Some([reader |-> ",", columns |-> file[","]])
             /\ semiRead
                  => tabRet.value = Some([reader |-> ";", columns |-> file[";"]])
        /\ (~isCsv /\ ~isParquet) =>
             /\ tabRet.reads = << >>
             /\ tabRet.printed = << "Cannot load data!" >>
             /\ tabRet.value = None
             /\ tabRet.outcome = "ok"

\* A csv file of one column whichever the separator: both reads are made,
\* the diagnostic is printed and the semicolon table is returned and kept.
C9_Witness ==
  /\ tabRes # None
  /\ Val(tabRes).metadata.url = << "zip", ".", "csv" >>
  /\ Val(remoteFile)[","] = 1
  /\ Val(remoteFile)[";"] = 1
  /\ tabRet.op = "get_dataset"
  /\ tabRet.reads = << ",", ";" >>
  /\ tabRet.printed # << >>
  /\ Val(tabRes)._df = Some([reader |-> ";", columns |-> 1])

(***************************************************************************)
(* One resource wrapper, tabular or geo, and the accesses to its payload.  *)
(***************************************************************************)
WrapperUrls == {Concat(ps) : ps \in SeqsUpTo(UrlPieces, MaxWrapperPieces)}

InitGeoResource ==
  /\ CatalogueOff
  /\ ClassifierOff
  /\ showRemote = << >>
  /\ PackageOff
  /\ CliOff
  /\ TabularOff
  /\ geoRes \in {Some(OpenDataGeoResource([url |-> u])) : u \in WrapperUrls}
  /\ geoRet = NoGeoAccess

InitResources ==
  \/ InitTabular
  \/ InitGeoResource

NextResources ==
  \/ df
  \/ wfs
  \/ layers
  \/ OpenDataGeoResource_df

SpecResources == InitResources /\ [][NextResources]_vars

\* The memoized attributes of a geo wrapper, by the property that fills them.
GeoCache(self) ==
  [p \in {"wfs", "layers", "df"} |->
     IF p = "wfs" THEN self._wfs ELSE IF p = "layers" THEN self._layers ELSE self._df]

\* No request is sent twice in one access.
NoRepeat(calls) ==
  \A i, j \in DOMAIN calls : calls[i] = calls[j] => i = j

\* One access to df of a tabular wrapper.
TabularAccessMemoized ==
  tabRes # None =>
    LET self == Val(tabRes)
        after == Val(tabRes')
    IN  /\ self._df # None =>
             /\ after = self
             /\ tabRet'.op = "cached"
             /\ tabRet'.value = self._df
             /\ tabRet'.reads = << >>
        /\ self._df = None =>
             /\ tabRet'.op = "get_dataset"
             /\ after._df = tabRet'.value
             /\ tabRet'.outcome # "ok" => tabRet'.value = None

\* One access to wfs, layers or df of a geo wrapper.
GeoAccessMemoized ==
  geoRes # None =>
    LET before == GeoCache(Val(geoRes))
        after == GeoCache(Val(geoRes'))
        ret == geoRet'
    IN  /\ \A p \in DOMAIN before :
             before[p] # None =>
               /\ after[p] = before[p]
               /\ p \notin Range(ret.computed)
        /\ before[ret.op] # None =>
             /\ ret.outcome = "ok"
             /\ ret.value = before[ret.op]
             /\ ret.calls = << >>
             /\ ret.computed = << >>
             /\ geoRes' = geoRes
        /\ before[ret.op] = None =>
             /\ ret.computed # << >> /\ ret.computed[1] = ret.op
             /\ after[ret.op] = ret.value
             /\ ret.outcome # "ok" => ret.value = None
        /\ Range(ret.calls) \subseteq {"GetCapabilities", "GetFeature"}
        /\ NoRepeat(ret.calls)
        /\ "GetCapabilities" \in Range(ret.calls) => before["wfs"] = None
        /\ "GetFeature" \in Range(ret.calls) => before["df"] = None
        /\ ret.op # "df" => "GetFeature" \notin Range(ret.calls)

\* C11: on one resource wrapper each payload (the tabular df; the geo wfs,
\* layers and df) is fetched at most once.  Once an access has yielded a
\* payload it is kept for good, and every later access returns the kept
\* payload with no download and no WFS request; an access that yields no
\* payload (it raised, or the value is None) leaves the cache empty, and the
\* next access computes again.
C11_PayloadFetchedOnce ==
  [][TabularAccessMemoized /\ GeoAccessMemoized]_vars

\* The df of a geo wrapper was fetched, and a later access to df returned
\* the kept table without a request.
C11_Witness ==
  /\ geoRes # None
  /\ Val(geoRes)._df # None
  /\ Val(geoRes)._layers = Some(<< "l2", "l1" >>)
  /\ geoRet.op = "df"
  /\ geoRet.value = Val(geoRes)._df
  /\ geoRet.value = Some([layer |-> "l2"])
  /\ geoRet.calls = << >>
  /\ geoRet.computed = << >>

(***************************************************************************)
(* A page request that fails during the fetch of the catalogue.            *)
(***************************************************************************)
\* The state an access leaves when a request of its fetch has raised.
FetchAborted ==
  /\ catRet.outcome = "RequestError"
  /\ catRet.value = None
  /\ ~catRet.hit
  /\ lastFetch.df = None
  /\ lastFetch.requested = OffsetsUpTo(Len(lastFetch.requested))
  /\ Len(lastFetch.requested) \in 1..FirstEmpty
  /\ _full_package_list_df = None
  /\ _tabular_package_list_df = None
  /\ _geo_package_list_df = None

\* C12: when a page request of the full-catalogue fetch fails, the access
\* ends with that failure, the failing request is the last one of the fetch,
\* and the full, tabular and geo caches stay unset, so that no partial
\* catalogue is kept; the next access to any view runs a new fetch, which
\* starts at offset 0.
C12_FailedFetchCachesNothing ==
  [][ /\ lastFetch'.outcome = "RequestError" => FetchAborted'
      /\ lastFetch.outcome = "RequestError" =>
           /\ fetches'.started = fetches.started + 1
           /\ lastFetch'.requested # << >>
           /\ lastFetch'.requested[1] = 0 ]_vars

\* The second request of a fetch failed after a first page was received,
\* and that on the second fetch of the client, the first having failed too.
C12_Witness ==
  /\ Len(remote) >= 2
  /\ remote[1] # << >>
  /\ fetches = [started |-> 2, completed |-> 0]
  /\ lastFetch.outcome = "RequestError"
  /\ lastFetch.requested = << 0, limit >>
  /\ catRet.view = "geo"
  /\ _full_package_list_df = None
  /\ _tabular_package_list_df = None
  /\ _geo_package_list_df = None

(***************************************************************************)
(* The derived views as filters over the snapshot.                         *)
(***************************************************************************)
\* The resources a view is about.
InView(view, x) == IF view = "tabular" THEN CsvOrParquetExact(x) ELSE WfsExact(x)

\* The rows of the snapshot with a resource the view is about, in order.
RowsInView(view, full) ==
  {i \in DOMAIN full : \E x \in Range(full[i].resources) : InView(view, x)}

\* The k-th of them.
NthRowInView(view, full, k) ==
  CHOOSE i \in RowsInView(view, full) :
    Cardinality({j \in RowsInView(view, full) : j <= i}) = k

\* The frame is the snapshot filtered for the view: its rows are the snapshot's
\* rows with a resource the view is about, in the snapshot's order, each
\* with those resources only and in their order.
IsFilteredSnapshot(view, filtered, full) ==
  /\ Len(filtered) = Cardinality(RowsInView(view, full))
  /\ \A k \in DOMAIN filtered :
       LET row == full[NthRowInView(view, full, k)]
       IN  /\ filtered[k].name = row.name
           /\ filtered[k].resources = SelectSeq(row.resources, LAMBDA x : InView(view, x))
           /\ filtered[k].resources # << >>

\* Every view that has been computed is the snapshot filtered, and the
\* snapshot is what the fetch returned.
ViewsAreFilters ==
  /\ _full_package_list_df # None => _full_package_list_df = lastFetch.df
  /\ _tabular_package_list_df # None =>
       /\ _full_package_list_df # None
       /\ IsFilteredSnapshot("tabular", Val(_tabular_package_list_df),
                             Val(_full_package_list_df))
  /\ _geo_package_list_df # None =>
       /\ _full_package_list_df # None
       /\ IsFilteredSnapshot("geo", Val(_geo_package_list_df),
                             Val(_full_package_list_df))

\* C13: computing the tabular or the geo view leaves the cached snapshot as
\* it was fetched, every dataset with its whole resource list; once the
\* snapshot exists no access fetches again; and a view holds exactly the
\* datasets of the snapshot that have a matching resource (CSV or parquet
\* for tabular, WFS for geo), each with its matching resources only and
\* never with an empty list, the other datasets being removed.
C13_ViewsFilterSnapshot ==
  [][ /\ ViewsAreFilters'
      /\ _full_package_list_df # None =>
           /\ _full_package_list_df' = _full_package_list_df
           /\ fetches' = fetches
           /\ lastFetch' = lastFetch ]_vars

\* Both views were computed from a snapshot of three datasets: one is in
\* both views with a part of its resources, one in the tabular view only,
\* one in neither; a single fetch was made.
C13_Witness ==
  /\ fetches = [started |-> 1, completed |-> 1]
  /\ _full_package_list_df # None
  /\ _tabular_package_list_df # None
  /\ _geo_package_list_df # None
  /\ Len(Val(_full_package_list_df)) = 2
  /\ Len(Val(_tabular_package_list_df)) = 1
  /\ Len(Val(_geo_package_list_df)) = 1
  /\ Val(_geo_package_list_df)[1].resources = << Res("r2", "WFS") >>
  /\ Val(_full_package_list_df)[1].resources = << Res("r1", "CSV"), Res("r2", "WFS") >>
  /\ computed = [v \in {"tabular", "geo"} |-> 1]

====
